---------------------------- MODULE Spec2Model ----------------------------
(***************************************************************************)
(* Model of the Binance Futures Testnet trading bot: the validators        *)
(* (bot/validators.py), the order strategies (bot/orders.py) and the       *)
(* signed request client (bot/client.py).                                  *)
(*                                                                         *)
(* Python values are tagged records:                                       *)
(*   [t |-> "none"]                       None                             *)
(*   [t |-> "str", s |-> <<chars>>]       a str, one 1-character string    *)
(*                                        per character                    *)
(*   [t |-> "int", v |-> n]               the int n                        *)
(*   [t |-> "num", cls |-> c, v |-> n]    a float: cls is "fin" (the       *)
(*                                        finite value n), "nan", "inf"    *)
(*                                        or "ninf"                        *)
(* A dict whose insertion order matters (request parameters) is a sequence *)
(* of <<key, value>> pairs.  A call that may raise returns                 *)
(* [ok |-> TRUE, val |-> v] or [ok |-> FALSE, exc |-> class, msg |-> m].   *)
(***************************************************************************)
EXTENDS Integers, Sequences, FiniteSets, TLC

(***************************************************************************)
(* Bounds of the model.                                                    *)
(***************************************************************************)
\* largest finite magnitude among the numeric inputs
MaxNum == 2
\* number of HTTP dispatches after which no further engine operation starts
MaxDispatch == 3
\* number of clock ticks (ms) the local clock may advance
MaxTicks == 1
\* local clock (ms) when the session starts
StartMs == 100
\* longest symbol string given to validate_symbol on its own
MaxSymLen == 3

(***************************************************************************)
(* Python value helpers.                                                   *)
(***************************************************************************)
NoneV == [t |-> "none"]
StrV(s) == [t |-> "str", s |-> s]
NumV(cls, v) == [t |-> "num", cls |-> cls, v |-> v]
FinV(n) == NumV("fin", n)
IntV(n) == [t |-> "int", v |-> n]

Ok(v) == [ok |-> TRUE, val |-> v]
Raise(exc, msg) == [ok |-> FALSE, exc |-> exc, msg |-> msg]

\* bool(x) is False
Falsy(x) ==
    \/ x.t = "none"
    \/ x.t = "str" /\ x.s = <<>>
    \/ x.t = "num" /\ x.cls = "fin" /\ x.v = 0
    \/ x.t = "int" /\ x.v = 0

LowerLetters ==
    <<"a","b","c","d","e","f","g","h","i","j","k","l","m",
      "n","o","p","q","r","s","t","u","v","w","x","y","z">>
UpperLetters ==
    <<"A","B","C","D","E","F","G","H","I","J","K","L","M",
      "N","O","P","Q","R","S","T","U","V","W","X","Y","Z">>
DigitChars == <<"0","1","2","3","4","5","6","7","8","9">>
Whitespace == {" "}

Range(f) == {f[i] : i \in DOMAIN f}
LowerSet == Range(LowerLetters)
UpperSet == Range(UpperLetters)
DigitSet == Range(DigitChars)
AlnumSet == LowerSet \cup UpperSet \cup DigitSet

\* str.upper() / str.lower() on one character
UpperChar(c) ==
    IF c \in LowerSet
    THEN UpperLetters[CHOOSE i \in DOMAIN LowerLetters : LowerLetters[i] = c]
    ELSE c
LowerChar(c) ==
    IF c \in UpperSet
    THEN LowerLetters[CHOOSE i \in DOMAIN UpperLetters : UpperLetters[i] = c]
    ELSE c
Upper(s) == [i \in DOMAIN s |-> UpperChar(s[i])]
Lower(s) == [i \in DOMAIN s |-> LowerChar(s[i])]

\* str.strip(): leading and trailing whitespace removed
RECURSIVE LStrip(_)
LStrip(s) == IF s # <<>> /\ Head(s) \in Whitespace THEN LStrip(Tail(s)) ELSE s
RECURSIVE RStrip(_)
RStrip(s) ==
    IF s # <<>> /\ s[Len(s)] \in Whitespace
    THEN RStrip(SubSeq(s, 1, Len(s) - 1)) ELSE s
Strip(s) == RStrip(LStrip(s))

\* str.replace(c, "")
Remove(s, c) == SelectSeq(s, LAMBDA x : x # c)

\* str.isalnum(): non-empty and every character a letter or a digit
IsAlnum(s) ==
    /\ s # <<>>
    /\ \A i \in DOMAIN s : s[i] \in AlnumSet

IsDigits(s) == s # <<>> /\ \A i \in DOMAIN s : s[i] \in DigitSet
DigitVal(c) == (CHOOSE i \in DOMAIN DigitChars : DigitChars[i] = c) - 1
RECURSIVE DigitsValue(_)
DigitsValue(s) ==
    IF s = <<>> THEN 0
    ELSE 10 * DigitsValue(SubSeq(s, 1, Len(s) - 1)) + DigitVal(s[Len(s)])

RECURSIVE NatStr(_)
NatStr(n) ==
    IF n < 10 THEN <<DigitChars[n + 1]>>
    ELSE NatStr(n \div 10) \o <<DigitChars[(n % 10) + 1]>>
\* str(n) of an int
IntStr(n) == IF n < 0 THEN <<"-">> \o NatStr(-n) ELSE NatStr(n)

\* index of the first "." of s, 0 when there is none
DotAt(s) ==
    IF \E i \in DOMAIN s : s[i] = "."
    THEN CHOOSE i \in DOMAIN s : s[i] = "." /\ \A j \in 1..(i - 1) : s[j] # "."
    ELSE 0

\* The decimal literals of the model: digits, optionally followed by "." and
\* zeros (the finite floats of the model are the integers).
IsDecimalAt(s, d) ==
    IF d = 0 THEN IsDigits(s)
    ELSE /\ IsDigits(SubSeq(s, 1, d - 1))
         /\ \A i \in (d + 1)..Len(s) : s[i] = "0"
IsDecimal(s) == IsDecimalAt(s, DotAt(s))
DecimalValueAt(s, d) ==
    IF d = 0 THEN DigitsValue(s) ELSE DigitsValue(SubSeq(s, 1, d - 1))
DecimalValue(s) == DecimalValueAt(s, DotAt(s))

\* float(str): whitespace stripped, optional sign, then nan / inf / infinity
\* (any case) or a decimal literal; anything else raises ValueError
ParseUnsigned(neg, body) ==
    IF body = <<"n","a","n">> THEN Ok(NumV("nan", 0))
    ELSE IF body \in {<<"i","n","f">>, <<"i","n","f","i","n","i","t","y">>}
         THEN Ok(NumV(IF neg THEN "ninf" ELSE "inf", 0))
    ELSE IF IsDecimal(body)
         THEN Ok(FinV(IF neg THEN 0 - DecimalValue(body) ELSE DecimalValue(body)))
    ELSE Raise("ValueError", "could not convert string to float")
ParseSigned(b) ==
    ParseUnsigned(b # <<>> /\ Head(b) = "-",
                  IF b # <<>> /\ Head(b) \in {"+", "-"} THEN Tail(b) ELSE b)
ParseFloat(s) == ParseSigned(Lower(Strip(s)))

\* float(x)
PyFloat(x) ==
    IF x.t = "num" THEN Ok(x)
    ELSE IF x.t = "int" THEN Ok(FinV(x.v))
    ELSE IF x.t = "str" THEN ParseFloat(x.s)
    ELSE Raise("TypeError", "float() argument must be a string or a number")

\* int(str): whitespace stripped, optional sign, then decimal digits
IntOfDigits(neg, d) ==
    IF IsDigits(d)
    THEN Ok(IntV(IF neg THEN 0 - DigitsValue(d) ELSE DigitsValue(d)))
    ELSE Raise("ValueError", "invalid literal for int() with base 10")
IntOfStr(b) ==
    IntOfDigits(b # <<>> /\ Head(b) = "-",
                IF b # <<>> /\ Head(b) \in {"+", "-"} THEN Tail(b) ELSE b)

\* int(x): a float is truncated, NaN raises ValueError and an infinity
\* OverflowError
PyInt(x) ==
    IF x.t = "int" THEN Ok(x)
    ELSE IF x.t = "num"
         THEN IF x.cls = "fin" THEN Ok(IntV(x.v))
              ELSE IF x.cls = "nan"
                   THEN Raise("ValueError", "cannot convert float NaN to integer")
              ELSE Raise("OverflowError", "cannot convert float infinity to integer")
    ELSE IF x.t = "str" THEN IntOfStr(Strip(x.s))
    ELSE Raise("TypeError", "int() argument must be a string or a number")

\* x <= 0 on floats: False for NaN and +inf
LeqZero(f) == (f.cls = "fin" /\ f.v <= 0) \/ f.cls = "ninf"

\* str(x) of a float
FloatStr(f) ==
    IF f.cls = "nan" THEN <<"n","a","n">>
    ELSE IF f.cls = "inf" THEN <<"i","n","f">>
    ELSE IF f.cls = "ninf" THEN <<"-","i","n","f">>
    ELSE IntStr(f.v) \o <<".","0">>

\* str(x) of a value
PyStr(x) ==
    IF x.t = "str" THEN x.s
    ELSE IF x.t = "none" THEN <<"N","o","n","e">>
    ELSE IF x.t = "int" THEN IntStr(x.v)
    ELSE FloatStr(x)

(***************************************************************************)
(* bot/validators.py                                                       *)
(***************************************************************************)
VALID_SIDES == {<<"B","U","Y">>, <<"S","E","L","L">>}
MARKET == <<"M","A","R","K","E","T">>
LIMIT == <<"L","I","M","I","T">>
STOP_LIMIT == <<"S","T","O","P","_","L","I","M","I","T">>
VALID_ORDER_TYPES == {MARKET, LIMIT, STOP_LIMIT}

\* A variant of SymbolRules that does not take the underscores out before
\* isalnum().
SymbolRules_NoUnderscore(s) ==
    IF Len(s) < 2 THEN Raise("ValidationError", "Symbol is too short")
    ELSE IF ~IsAlnum(s)
         THEN Raise("ValidationError", "Symbol contains invalid characters")
    ELSE Ok(s)

\* validate_symbol after symbol = symbol.strip().upper()
SymbolRules(s) ==
    IF Len(s) < 2 THEN Raise("ValidationError", "Symbol is too short")
    ELSE IF ~IsAlnum(Remove(s, "_"))
         THEN Raise("ValidationError", "Symbol contains invalid characters")
    ELSE Ok(s)

validate_symbol(symbol) ==
    IF Falsy(symbol) \/ symbol.t # "str"
    THEN Raise("ValidationError", "Symbol is required")
    ELSE SymbolRules(Upper(Strip(symbol.s)))

\* validate_side after side = side.strip().upper()
SideRules(s) ==
    IF s \notin VALID_SIDES THEN Raise("ValidationError", "Invalid order side")
    ELSE Ok(s)

validate_side(side) ==
    IF Falsy(side) \/ side.t # "str"
    THEN Raise("ValidationError", "Order side is required")
    ELSE SideRules(Upper(Strip(side.s)))

\* validate_order_type after order_type = order_type.strip().upper()
OrderTypeRules(s) ==
    IF s \notin VALID_ORDER_TYPES THEN Raise("ValidationError", "Invalid order type")
    ELSE Ok(s)

validate_order_type(order_type) ==
    IF Falsy(order_type) \/ order_type.t # "str"
    THEN Raise("ValidationError", "Order type is required")
    ELSE OrderTypeRules(Upper(Strip(order_type.s)))

\* The three numeric validators share one shape: f is float(value) or what it
\* raised; then the "<= 0" check.
PositiveRules(f, invalidMsg, notPositiveMsg) ==
    IF ~f.ok THEN Raise("ValidationError", invalidMsg)
    ELSE IF LeqZero(f.val) THEN Raise("ValidationError", notPositiveMsg)
    ELSE Ok(f.val)

validate_quantity(quantity) ==
    PositiveRules(PyFloat(quantity), "Invalid quantity",
                  "Quantity must be greater than 0")

validate_price(price) ==
    PositiveRules(PyFloat(price), "Invalid price", "Price must be greater than 0")

validate_stop_price(stop_price) ==
    PositiveRules(PyFloat(stop_price), "Invalid stop price",
                  "Stop price must be greater than 0")

\* The validated dict is a record; its keys depend on the order type.
\* The part of validate_order_params after the LIMIT price check.
LimitRules(validated, p) ==
    IF ~p.ok THEN p
    ELSE Ok([symbol |-> validated.symbol, side |-> validated.side,
             order_type |-> validated.order_type, quantity |-> validated.quantity,
             price |-> p.val])

\* The part of validate_order_params after the two STOP_LIMIT presence checks.
StopLimitRules(validated, p, sp) ==
    IF ~p.ok THEN p
    ELSE IF ~sp.ok THEN sp
    ELSE Ok([symbol |-> validated.symbol, side |-> validated.side,
             order_type |-> validated.order_type, quantity |-> validated.quantity,
             price |-> p.val, stop_price |-> sp.val])

\* A variant of TypeRules that validates the limit price of a STOP_LIMIT
\* before it looks for the stop price.
TypeRules_ValueFirst(validated, price, stop_price) ==
    IF validated.order_type = LIMIT
    THEN IF price.t = "none"
         THEN Raise("ValidationError", "Price is required for LIMIT orders")
         ELSE LimitRules(validated, validate_price(price))
    ELSE IF validated.order_type = STOP_LIMIT
    THEN IF price.t = "none"
         THEN Raise("ValidationError", "Limit price is required for STOP_LIMIT orders")
         ELSE IF ~validate_price(price).ok THEN validate_price(price)
         ELSE IF stop_price.t = "none"
         THEN Raise("ValidationError",
                    "Stop (trigger) price is required for STOP_LIMIT orders")
         ELSE StopLimitRules(validated, validate_price(price),
                             validate_stop_price(stop_price))
    ELSE Ok(validated)

\* A variant of TypeRules that validates and keeps a price given with a
\* MARKET order.
TypeRules_MarketChecksPrice(validated, price, stop_price) ==
    IF validated.order_type = LIMIT
    THEN IF price.t = "none"
         THEN Raise("ValidationError", "Price is required for LIMIT orders")
         ELSE LimitRules(validated, validate_price(price))
    ELSE IF validated.order_type = STOP_LIMIT
    THEN IF price.t = "none"
         THEN Raise("ValidationError", "Limit price is required for STOP_LIMIT orders")
         ELSE IF stop_price.t = "none"
         THEN Raise("ValidationError",
                    "Stop (trigger) price is required for STOP_LIMIT orders")
         ELSE StopLimitRules(validated, validate_price(price),
                             validate_stop_price(stop_price))
    ELSE IF price.t # "none" THEN LimitRules(validated, validate_price(price))
    ELSE Ok(validated)

\* The per-type rules of validate_order_params.
TypeRules(validated, price, stop_price) ==
    IF validated.order_type = LIMIT
    THEN IF price.t = "none"
         THEN Raise("ValidationError", "Price is required for LIMIT orders")
         ELSE LimitRules(validated, validate_price(price))
    ELSE IF validated.order_type = STOP_LIMIT
    THEN IF price.t = "none"
         THEN Raise("ValidationError", "Limit price is required for STOP_LIMIT orders")
         ELSE IF stop_price.t = "none"
         THEN Raise("ValidationError",
                    "Stop (trigger) price is required for STOP_LIMIT orders")
         ELSE StopLimitRules(validated, validate_price(price),
                             validate_stop_price(stop_price))
    ELSE Ok(validated)

\* A variant of CommonRules that looks for the price of a LIMIT order before
\* it validates symbol, side and quantity.
CommonRules_PriceFirst(sy, sd, ot, q, price, stop_price) ==
    IF ot.ok /\ ot.val = LIMIT /\ price.t = "none"
    THEN Raise("ValidationError", "Price is required for LIMIT orders")
    ELSE IF ~sy.ok THEN sy
    ELSE IF ~sd.ok THEN sd
    ELSE IF ~ot.ok THEN ot
    ELSE IF ~q.ok THEN q
    ELSE TypeRules([symbol |-> sy.val, side |-> sd.val,
                    order_type |-> ot.val, quantity |-> q.val],
                   price, stop_price)

\* The dict literal of validate_order_params: the four checks in order, the
\* first failure raised.
CommonRules(sy, sd, ot, q, price, stop_price) ==
    IF ~sy.ok THEN sy
    ELSE IF ~sd.ok THEN sd
    ELSE IF ~ot.ok THEN ot
    ELSE IF ~q.ok THEN q
    ELSE TypeRules([symbol |-> sy.val, side |-> sd.val,
                    order_type |-> ot.val, quantity |-> q.val],
                   price, stop_price)

validate_order_params(symbol, side, order_type, quantity, price, stop_price) ==
    CommonRules(validate_symbol(symbol), validate_side(side),
                validate_order_type(order_type), validate_quantity(quantity),
                price, stop_price)

(***************************************************************************)
(* Dicts with insertion order: sequences of <<key, value>> pairs.          *)
(***************************************************************************)
DictHas(d, k) == \E i \in DOMAIN d : d[i][1] = k
DictGet(d, k) == d[CHOOSE i \in DOMAIN d : d[i][1] = k][2]
DictKeys(d) == {d[i][1] : i \in DOMAIN d}
\* d[k] = v: an existing key keeps its position, a new key is appended
DictSet(d, k, v) ==
    IF DictHas(d, k)
    THEN [i \in DOMAIN d |-> IF d[i][1] = k THEN <<k, v>> ELSE d[i]]
    ELSE Append(d, <<k, v>>)
\* the dict without key k
DictDel(d, k) == SelectSeq(d, LAMBDA kv : kv[1] # k)

(***************************************************************************)
(* bot/client.py                                                           *)
(*                                                                         *)
(* The venue is the environment: it answers each HTTP attempt with         *)
(*   [kind |-> "exception", exc |-> class, detail |-> text]   (transport)  *)
(*   [kind |-> "response", status |-> n, body |-> b]                       *)
(* where the body is [type |-> "not_json"], [type |-> "list"] or a         *)
(* [type |-> "dict", ...] carrying the fields named by its has_* flags.    *)
(* A wire request is [method, path, params].                               *)
(***************************************************************************)
ApiError(code, message) ==
    [ok |-> FALSE, exc |-> "BinanceAPIError", code |-> code, msg |-> message]

WireRequest(method, path, params) ==
    [method |-> method, path |-> path, params |-> params]

\* urllib.parse.urlencode: every value stringified, insertion order kept
urlencode(params) == [i \in DOMAIN params |-> <<params[i][1], PyStr(params[i][2])>>]

\* hex HMAC-SHA256 of the query string under the secret key, uninterpreted
_sign(secret_key, params) ==
    [t |-> "hmac", key |-> secret_key, message |-> urlencode(params)]

\* A variant of _get_timestamp that keeps the clock reading of the
\* construction.
_get_timestamp_Cached(now_ms, time_offset) == StartMs + time_offset

_get_timestamp(now_ms, time_offset) == now_ms + time_offset

\* A variant of _sync_time that catches transport exceptions only: a body it
\* cannot read raises out of it.
_sync_time_TransportOnly(resp, local_time) ==
    IF resp.kind = "exception" THEN [ok |-> TRUE, offset |-> 0, warned |-> TRUE]
    ELSE IF resp.body.type # "dict"
         THEN [ok |-> FALSE, offset |-> 0, warned |-> FALSE]
    ELSE [ok |-> TRUE, warned |-> FALSE,
          offset |-> (IF resp.body.has_serverTime THEN resp.body.serverTime ELSE 0)
                     - local_time]

\* _sync_time: the offset it leaves and whether it logged the warning (ok:
\* it returned, it did not raise)
_sync_time(resp, local_time) ==
    IF resp.kind = "exception" THEN [ok |-> TRUE, offset |-> 0, warned |-> TRUE]
    ELSE IF resp.body.type # "dict"
         \* json() raises on a non-JSON body, .get raises on a list
         THEN [ok |-> TRUE, offset |-> 0, warned |-> TRUE]
    ELSE [ok |-> TRUE, warned |-> FALSE,
          \* response.json().get("serverTime", 0) - local_time
          offset |-> (IF resp.body.has_serverTime THEN resp.body.serverTime ELSE 0)
                     - local_time]

TimeRequest == WireRequest("GET", "/fapi/v1/time", <<>>)

\* __init__ after self._sync_time() (which raises nothing: s.ok)
AfterSync(s) ==
    IF s.ok
    THEN [state |-> "ready", offset |-> s.offset, warned |-> s.warned,
          sent |-> <<TimeRequest>>, result |-> Ok(NoneV)]
    ELSE [state |-> "sync_error", offset |-> s.offset, warned |-> s.warned,
          sent |-> <<TimeRequest>>, result |-> Raise("Exception", "time sync failed")]

\* A variant of ClientInit that checks the secret key only when it signs.
ClientInit_NoSecretCheck(key, secret, resp, local_time) ==
    IF Falsy(key)
    THEN [state |-> "config_error", offset |-> 0, warned |-> FALSE, sent |-> <<>>,
          result |-> Raise("ValueError", "API_Key and Secret_Key must be set")]
    ELSE AfterSync(_sync_time(resp, local_time))

\* __init__: credentials check, then the time sync
ClientInit(key, secret, resp, local_time) ==
    IF Falsy(key) \/ Falsy(secret)
    THEN [state |-> "config_error", offset |-> 0, warned |-> FALSE, sent |-> <<>>,
          result |-> Raise("ValueError", "API_Key and Secret_Key must be set")]
    ELSE AfterSync(_sync_time(resp, local_time))

\* A variant of Interpret that takes only negative codes for errors.
Interpret_NegativeOnly(resp) ==
    IF resp.kind = "exception" THEN Raise(resp.exc, resp.detail)
    ELSE IF resp.body.type = "not_json"
         THEN Raise("JSONDecodeError", "Expecting value")
    ELSE IF resp.body.type = "dict" /\ resp.body.has_code /\ resp.body.code < 0
         THEN ApiError(resp.body.code,
                       IF resp.body.has_msg THEN resp.body.msg ELSE "Unknown error")
    ELSE Ok(resp.body)

\* the part of _request after the dispatch: response.json() and the code check
Interpret(resp) ==
    IF resp.kind = "exception" THEN Raise(resp.exc, resp.detail)
    ELSE IF resp.body.type = "not_json"
         THEN Raise("JSONDecodeError", "Expecting value")
    ELSE IF /\ resp.body.type = "dict"
            /\ resp.body.has_code
            /\ resp.body.code # 200
            /\ (resp.body.code < 0 \/ (resp.body.code > 0 /\ resp.body.code # 200))
         THEN ApiError(resp.body.code,
                       IF resp.body.has_msg THEN resp.body.msg ELSE "Unknown error")
    ELSE Ok(resp.body)

\* what the caller of op gets once _request ended with r: the engine's
\* operations return it as it is; execute reads result.get("orderId") and
\* result.get("status"), and cancel_order of bot/orders.py reads
\* result.get("status"), for the log line first, which a body that is no
\* object does not have
Returned(op, r) ==
    IF op \in {"execute", "orders.cancel_order"} /\ r.ok /\ r.val.type # "dict"
    THEN Raise("AttributeError", "'list' object has no attribute 'get'")
    ELSE r

\* A variant of Completion that sends the request again after a transport
\* failure.
Completion_Retry(call, resp) ==
    IF resp.kind = "exception" /\ call.answers = <<>>
    THEN [call EXCEPT !.answers = Append(@, resp), !.sent = Append(@, call.sent[1])]
    ELSE [call EXCEPT !.answers = Append(@, resp), !.done = TRUE,
                      !.result = Returned(call.op, Interpret(resp))]

\* the try block of _request from the return of session.<method>(...) on, and
\* its except clauses: the call blocked in the dispatch gets the venue's
\* answer and returns or raises
Completion(call, resp) ==
    [call EXCEPT !.answers = Append(@, resp), !.done = TRUE,
                 !.result = Returned(call.op, Interpret(resp))]

\* params as _request leaves them before the dispatch, and what was signed:
\* params["signature"] = self._sign(params)
Signed(params, secret_key) ==
    [params |-> DictSet(params, "signature", _sign(secret_key, params)),
     signed |-> <<params>>]
Prepare(params, signed, secret_key, timestamp) ==
    IF signed
    THEN Signed(DictSet(params, "timestamp", IntV(timestamp)), secret_key)
    ELSE [params |-> params, signed |-> <<>>]

\* _request(method, path, params, signed) up to the point where it blocks in
\* session.<method>(...): what went on the wire, what _sign was given, and,
\* when it returned without dispatching (done), what the caller gets.  The
\* rest of _request is Interpret, applied to the venue's answer.
Dispatch(method, path, prep) ==
    IF method \notin {"GET", "POST", "DELETE", "PUT"}
    THEN [sent |-> <<>>, signed |-> prep.signed, done |-> TRUE,
          result |-> Raise("ValueError", "Unsupported HTTP method")]
    ELSE [sent |-> <<WireRequest(method, path, prep.params)>>,
          signed |-> prep.signed, done |-> FALSE, result |-> Ok(NoneV)]
_request(method, path, params, signed, secret_key, timestamp) ==
    Dispatch(method, path, Prepare(params, signed, secret_key, timestamp))

\* the loop over **kwargs of place_order: None values are left out
RECURSIVE AddKwargs(_, _)
AddKwargs(params, kwargs) ==
    IF kwargs = <<>> THEN params
    ELSE AddKwargs(IF Head(kwargs)[2].t = "none" THEN params
                   ELSE DictSet(params, Head(kwargs)[1], StrV(PyStr(Head(kwargs)[2]))),
                   Tail(kwargs))

\* the params dict place_order hands to _request
PlaceOrderParams(symbol, side, order_type, quantity, kwargs) ==
    AddKwargs(<< <<"symbol", StrV(Upper(symbol.s))>>,
                 <<"side", StrV(Upper(side.s))>>,
                 <<"type", StrV(Upper(order_type.s))>>,
                 <<"quantity", StrV(PyStr(quantity))>> >>,
              kwargs)

\* A variant of OpSigned that leaves every call at the default signed=True.
OpSigned_Always(op) == TRUE

\* whether each engine operation passes signed=True to _request
OpSigned(op) == op \notin {"get_price", "get_exchange_info"}

OpMethod(op) ==
    IF op = "place_order" THEN "POST"
    ELSE IF op \in {"cancel_order", "cancel_all_orders"} THEN "DELETE"
    ELSE "GET"

OpPath(op) ==
    CASE op = "get_balance" -> "/fapi/v2/balance"
      [] op = "get_account" -> "/fapi/v2/account"
      [] op = "get_price" -> "/fapi/v1/ticker/price"
      [] op = "get_exchange_info" -> "/fapi/v1/exchangeInfo"
      [] op = "place_order" -> "/fapi/v1/order"
      [] op = "get_open_orders" -> "/fapi/v1/openOrders"
      [] op = "cancel_order" -> "/fapi/v1/order"
      [] op = "cancel_all_orders" -> "/fapi/v1/allOpenOrders"

\* the params dict each of the other engine operations builds
OpParams(op, symbol, order_id) ==
    CASE op \in {"get_balance", "get_account"} -> <<>>
      [] op = "get_price" -> << <<"symbol", symbol>> >>
      [] op = "get_exchange_info" ->
            IF Falsy(symbol) THEN <<>> ELSE << <<"symbol", symbol>> >>
      [] op = "get_open_orders" ->
            IF Falsy(symbol) THEN <<>> ELSE << <<"symbol", StrV(Upper(symbol.s))>> >>
      [] op = "cancel_order" ->
            << <<"symbol", StrV(Upper(symbol.s))>>, <<"orderId", order_id>> >>
      [] op = "cancel_all_orders" -> << <<"symbol", StrV(Upper(symbol.s))>> >>

\* one engine operation: its params, then _request
EngineCall(op, params, secret_key, timestamp) ==
    _request(OpMethod(op), OpPath(op), params, OpSigned(op), secret_key, timestamp)

(***************************************************************************)
(* bot/orders.py: the order strategies.  An instance is                    *)
(*   [cls, symbol, side, quantity, price, stop_price, limit_price,         *)
(*    validated]                                                           *)
(* cls names the class; an attribute the class does not have is NoneV;     *)
(* validated is _validated: NoneV or the validated record.                 *)
(***************************************************************************)
GTC == <<"G","T","C">>
STOP == <<"S","T","O","P">>

\* __init__ of the three classes
MarketOrder(symbol, side, quantity) ==
    [cls |-> "MarketOrder", symbol |-> symbol, side |-> side, quantity |-> quantity,
     price |-> NoneV, stop_price |-> NoneV, limit_price |-> NoneV,
     validated |-> NoneV]
LimitOrder(symbol, side, quantity, price) ==
    [cls |-> "LimitOrder", symbol |-> symbol, side |-> side, quantity |-> quantity,
     price |-> price, stop_price |-> NoneV, limit_price |-> NoneV,
     validated |-> NoneV]
StopLimitOrder(symbol, side, quantity, stop_price, limit_price) ==
    [cls |-> "StopLimitOrder", symbol |-> symbol, side |-> side,
     quantity |-> quantity, price |-> NoneV, stop_price |-> stop_price,
     limit_price |-> limit_price, validated |-> NoneV]

\* the validate_order_params call that validate() and summary() make
OrderValidation(o) ==
    IF o.cls = "MarketOrder"
    THEN validate_order_params(o.symbol, o.side, StrV(MARKET), o.quantity, NoneV, NoneV)
    ELSE IF o.cls = "LimitOrder"
    THEN validate_order_params(o.symbol, o.side, StrV(LIMIT), o.quantity, o.price, NoneV)
    ELSE validate_order_params(o.symbol, o.side, StrV(STOP_LIMIT), o.quantity,
                               o.limit_price, o.stop_price)

\* validate(): _validated is assigned only when the call returns
Validated(o, r) ==
    [order |-> IF r.ok THEN [o EXCEPT !.validated = r.val] ELSE o,
     result |-> IF r.ok THEN Ok(NoneV) ELSE r]
validate(o) == Validated(o, OrderValidation(o))

\* A variant of build_kwargs with the two prices of a stop-limit swapped.
build_kwargs_Swapped(o) ==
    IF o.cls = "MarketOrder" THEN <<>>
    ELSE IF o.cls = "LimitOrder"
    THEN << <<"price", o.validated.price>>, <<"timeInForce", StrV(GTC)>> >>
    ELSE << <<"price", o.validated.stop_price>>, <<"stopPrice", o.validated.price>>,
            <<"timeInForce", StrV(GTC)>> >>

\* build_params(): the keyword arguments after symbol, side, order_type, quantity
build_kwargs(o) ==
    IF o.cls = "MarketOrder" THEN <<>>
    ELSE IF o.cls = "LimitOrder"
    THEN << <<"price", o.validated.price>>, <<"timeInForce", StrV(GTC)>> >>
    ELSE << <<"price", o.validated.price>>, <<"stopPrice", o.validated.stop_price>>,
            <<"timeInForce", StrV(GTC)>> >>

\* build_params(): the order_type keyword
build_order_type(o) ==
    IF o.cls = "MarketOrder" THEN StrV(MARKET)
    ELSE IF o.cls = "LimitOrder" THEN StrV(LIMIT)
    ELSE StrV(STOP)

\* build_params() of o, as client.place_order(**params) makes a dict of it
build_params(o) ==
    PlaceOrderParams(StrV(o.validated.symbol), StrV(o.validated.side),
                     build_order_type(o), o.validated.quantity, build_kwargs(o))

\* execute after client.place_order entered _request
Placed(o, req) ==
    [order |-> o, placed |-> 1, sent |-> req.sent, signed |-> req.signed,
     done |-> req.done, result |-> req.result]

\* A variant of AfterValidate that logs a failed validation and sends the
\* order's fields as they are.
AfterValidate_SendsAnyway(val, secret_key, timestamp) ==
    IF ~val.result.ok
    THEN Placed(val.order,
                EngineCall("place_order",
                           PlaceOrderParams(val.order.symbol, val.order.side,
                                            build_order_type(val.order),
                                            val.order.quantity, <<>>),
                           secret_key, timestamp))
    ELSE Placed(val.order,
                EngineCall("place_order", build_params(val.order), secret_key, timestamp))

\* execute(client) after self.validate(): build_params and
\* client.place_order(**params), up to the point where place_order blocks in
\* _request
AfterValidate(val, secret_key, timestamp) ==
    IF ~val.result.ok
    THEN [order |-> val.order, placed |-> 0, sent |-> <<>>, signed |-> <<>>,
          done |-> TRUE, result |-> val.result]
    ELSE Placed(val.order,
                EngineCall("place_order", build_params(val.order), secret_key, timestamp))

\* A variant of execute that skips validate() when the instance holds a
\* validation.
execute_UsesCache(o, secret_key, timestamp) ==
    IF o.validated # NoneV
    THEN Placed(o, EngineCall("place_order", build_params(o), secret_key, timestamp))
    ELSE AfterValidate(validate(o), secret_key, timestamp)

execute(o, secret_key, timestamp) == AfterValidate(validate(o), secret_key, timestamp)

\* summary(): the display mapping, from _validated when it is set
Display(cls, v) ==
    IF cls = "MarketOrder"
    THEN Ok([Symbol |-> v.symbol, Side |-> v.side, Type |-> MARKET,
             Quantity |-> v.quantity])
    ELSE IF cls = "LimitOrder"
    THEN Ok([Symbol |-> v.symbol, Side |-> v.side, Type |-> LIMIT,
             Quantity |-> v.quantity, LimitPrice |-> v.price])
    ELSE Ok([Symbol |-> v.symbol, Side |-> v.side, Type |-> STOP_LIMIT,
             Quantity |-> v.quantity, StopPrice |-> v.stop_price,
             LimitPrice |-> v.price])
\* summary() when _validated is unset: a fresh validation, which may raise
FreshDisplay(cls, fresh) == IF ~fresh.ok THEN fresh ELSE Display(cls, fresh.val)
\* A variant of summary that validates anew every time.
summary_AlwaysFresh(o) == FreshDisplay(o.cls, OrderValidation(o))

summary(o) ==
    IF o.validated # NoneV THEN Display(o.cls, o.validated)
    ELSE FreshDisplay(o.cls, OrderValidation(o))

\* a management function that ended before it called the client
NotSent(result) ==
    [sent |-> <<>>, signed |-> <<>>, done |-> TRUE, result |-> result]

\* get_open_orders(client, symbol), up to the dispatch of the request
get_open_orders(symbol, secret_key, timestamp) ==
    IF Falsy(symbol)
    THEN EngineCall("get_open_orders", OpParams("get_open_orders", symbol, NoneV),
                    secret_key, timestamp)
    ELSE IF ~validate_symbol(symbol).ok THEN NotSent(validate_symbol(symbol))
    ELSE EngineCall("get_open_orders",
                    OpParams("get_open_orders", StrV(validate_symbol(symbol).val), NoneV),
                    secret_key, timestamp)

\* cancel_order after symbol = validate_symbol(symbol) returned sym:
\* int(order_id) with TypeError and ValueError turned into ValidationError,
\* then client.cancel_order(symbol, order_id)
CancelValidated(sym, id, secret_key, timestamp) ==
    IF id.ok
    THEN EngineCall("cancel_order", OpParams("cancel_order", StrV(sym), id.val),
                    secret_key, timestamp)
    ELSE IF id.exc \in {"TypeError", "ValueError"}
         THEN NotSent(Raise("ValidationError", "Invalid order ID"))
    ELSE NotSent(id)

\* cancel_order(client, symbol, order_id), up to the dispatch of the request
cancel_order(symbol, order_id, secret_key, timestamp) ==
    IF ~validate_symbol(symbol).ok THEN NotSent(validate_symbol(symbol))
    ELSE CancelValidated(validate_symbol(symbol).val, PyInt(order_id),
                         secret_key, timestamp)

\* cancel_all_orders(client, symbol), up to the dispatch of the request
cancel_all_orders(symbol, secret_key, timestamp) ==
    IF ~validate_symbol(symbol).ok THEN NotSent(validate_symbol(symbol))
    ELSE EngineCall("cancel_all_orders",
                    OpParams("cancel_all_orders", StrV(validate_symbol(symbol).val), NoneV),
                    secret_key, timestamp)

\* the management functions of bot/orders.py
ManagementOps ==
    {"orders.get_open_orders", "orders.cancel_order", "orders.cancel_all_orders"}
ManagementCall(op, symbol, order_id, secret_key, timestamp) ==
    CASE op = "orders.get_open_orders" -> get_open_orders(symbol, secret_key, timestamp)
      [] op = "orders.cancel_order" ->
            cancel_order(symbol, order_id, secret_key, timestamp)
      [] op = "orders.cancel_all_orders" ->
            cancel_all_orders(symbol, secret_key, timestamp)

(***************************************************************************)
(* Inputs.                                                                 *)
(***************************************************************************)
\* what os.getenv gives for API_Key / Secret_Key
EnvValues == {NoneV, StrV(<<>>), StrV(<<"k">>)}

SymbolInputs == {StrV(<<" ","b","t","c">>), StrV(<<"b","-","t">>)}
SideInputs == {StrV(<<"s","e","l","l">>), StrV(<<"h","o","l","d">>)}
\* negative, zero, positive, NaN, +infinity, -infinity, non-numeric, None
NumInputs ==
    {FinV(0 - MaxNum), FinV(0), FinV(1), FinV(MaxNum), StrV(<<"n","a","n">>),
     NumV("inf", 0), StrV(<<"-","i","n","f">>), StrV(<<"a","b","c">>), NoneV}

\* order types given to validate_order_params on its own
OrderTypeInputs ==
    {StrV(<<"m","a","r","k","e","t">>), StrV(LIMIT),
     StrV(<<" ","s","t","o","p","_","l","i","m","i","t">>), StrV(<<"f","o","o">>)}
\* quantities given to validate_order_params on its own: positive, zero,
\* non-numeric
QuantityInputs == {FinV(MaxNum), FinV(0), StrV(<<"a","b","c">>)}

\* order ids given to cancel_order: an int, strings (an integer literal with
\* whitespace, a decimal literal, no number), None and floats (finite, NaN,
\* infinite)
OrderIdInputs ==
    {IntV(7), StrV(<<" ","7">>), StrV(<<"7",".","5">>), StrV(<<"a","b","c">>),
     NoneV, FinV(MaxNum), NumV("nan", 0), NumV("inf", 0)}

\* characters of the symbols given to validate_symbol on its own: letters of
\* both cases, a digit, the underscore, another character, whitespace
SymbolChars == {"b", "T", "7", "_", "-", " "}
\* every string over SymbolChars of at most MaxSymLen characters, None and a
\* value that is no string
SymbolArgs ==
    {StrV(s) : s \in UNION {[1..n -> SymbolChars] : n \in 0..MaxSymLen}}
        \cup {NoneV, IntV(7)}

Exceptions ==
    {[kind |-> "exception", exc |-> e, detail |-> "attempt 1"] :
        e \in {"Timeout", "ConnectionError", "RequestException"}}

DictBody(has_code, code, has_msg, msg) ==
    [type |-> "dict", has_code |-> has_code, code |-> code,
     has_msg |-> has_msg, msg |-> msg, has_serverTime |-> FALSE, serverTime |-> 0]

Bodies ==
    {[type |-> "not_json"], [type |-> "list"],
     DictBody(FALSE, 0, FALSE, ""),
     DictBody(TRUE, -1, FALSE, ""),
     DictBody(TRUE, -2019, TRUE, "Margin is insufficient."),
     DictBody(TRUE, 0, TRUE, "ok"),
     DictBody(TRUE, 200, TRUE, "success"),
     DictBody(TRUE, 400, TRUE, "Bad request")}

Responses ==
    Exceptions \cup
    {[kind |-> "response", status |-> s, body |-> b] : s \in {200, 400}, b \in Bodies}

\* answers of the time endpoint when the local clock reads local_time
SyncResponses(local_time) ==
    Exceptions \cup
    {[kind |-> "response", status |-> 200, body |-> b] :
        b \in {[type |-> "not_json"], [type |-> "list"],
               DictBody(TRUE, -1003, TRUE, "Too many requests."),
               [DictBody(FALSE, 0, FALSE, "") EXCEPT
                   !.has_serverTime = TRUE, !.serverTime = local_time + 7]}}

\* quantities a caller may assign to the attribute of an instance
QuantityEdits == {FinV(0), FinV(1)}

\* extra keyword arguments a caller of place_order may pass
KwargInputs ==
    {<<>>,
     << <<"price", FinV(MaxNum)>>, <<"timeInForce", StrV(GTC)>> >>,
     << <<"reduceOnly", NoneV>> >>,
     << <<"timestamp", IntV(1)>> >>,
     << <<"signature", StrV(<<"x">>)>> >>}

EngineOps ==
    {"get_balance", "get_account", "get_price", "get_exchange_info",
     "place_order", "get_open_orders", "cancel_order", "cancel_all_orders"}

(***************************************************************************)
(* State.                                                                  *)
(***************************************************************************)
VARIABLES
    api_key,        \* os.getenv("API_Key")
    secret_key,     \* os.getenv("Secret_Key")
    client,         \* "none", "ready" (an instance exists), "config_error",
                    \* "sync_error" (construction raised)
    time_offset,    \* self._time_offset
    ticks,          \* ms the local clock has advanced since StartMs
    warnings,       \* number of time-sync warnings logged
    dispatches,     \* number of HTTP requests sent so far
    last,           \* the last call made, see Call
    order,          \* the order instance of the session, or NoneV
    ostate,         \* the instance's state in the order state machine
    placeCalls,     \* client.place_order calls made by the instance
    exited,         \* NoneV while the process runs, then the command of
                    \* cli.py that ended it and its exit code
    cli             \* NoneV when the session calls the library itself, else
                    \* the command of cli.py that runs and the operator's
                    \* answer to its confirmation prompt

vars == <<api_key, secret_key, client, time_offset, ticks, warnings,
          dispatches, last, order, ostate, placeCalls, exited, cli>>

now_ms == StartMs + ticks

\* a call and what it did: the requests it sent, the dicts _sign was given,
\* the client.place_order calls it made, the venue's answers it got, whether
\* it has returned or raised (done) and, once done, its result
Call(op, input, sent, signed, placed, answers, done, result) ==
    [op |-> op, input |-> input, sent |-> sent, signed |-> signed,
     placed |-> placed, answers |-> answers, done |-> done, result |-> result]

Init ==
    /\ api_key \in EnvValues
    /\ secret_key \in EnvValues
    /\ client = "none"
    /\ time_offset = 0
    /\ ticks = 0
    /\ warnings = 0
    /\ dispatches = 0
    /\ last = Call("none", NoneV, <<>>, <<>>, 0, <<>>, TRUE, Ok(NoneV))
    /\ order = NoneV
    /\ ostate = "none"
    /\ placeCalls = 0
    /\ exited = NoneV
    /\ cli = NoneV

\* the commands of cli.py; trade is split by its mode
Commands ==
    {"trade", "trade_interactive", "balance", "price", "open-orders", "cancel",
     "cancel-all"}
TradeCommands == {"trade", "trade_interactive"}

\* the command that runs is trade and the last call it made is op
AtTrade(op) == cli # NoneV /\ cli.cmd \in TradeCommands /\ last.op = op

\* A variant of Confirmed that does not look at the operator's answer.
Confirmed_Unasked(op) == cli # NoneV /\ last.op = op

\* the last call of the command that runs is op and the operator has
\* answered its confirmation prompt with yes
Confirmed(op) == cli # NoneV /\ last.op = op /\ cli.confirmed = "yes"

\* the command that runs calls op next: balance, price, open-orders and cancel
\* right after the client is built, cancel-all once the operator confirmed
Runs(op) ==
    \/ /\ last.op = "__init__"
       /\ <<cli.cmd, op>> \in {<<"balance", "get_balance">>,
                               <<"price", "get_price">>,
                               <<"open-orders", "orders.get_open_orders">>,
                               <<"cancel", "orders.cancel_order">>}
    \/ /\ cli.cmd = "cancel-all"
       /\ op = "orders.cancel_all_orders"
       /\ Confirmed("__init__")

\* validate_symbol(symbol), called on its own
ValidateSymbol ==
    /\ exited = NoneV
    /\ cli = NoneV
    /\ last.op = "none"
    /\ \E symbol \in SymbolArgs :
          last' = Call("validate_symbol", symbol, <<>>, <<>>, 0, <<>>, TRUE,
                       validate_symbol(symbol))
    /\ UNCHANGED <<cli, exited, api_key, secret_key, client, time_offset, ticks, warnings,
                   dispatches, order, ostate, placeCalls>>

\* validate_order_params(symbol, side, order_type, quantity, price,
\* stop_price), called on its own; None for price or stop_price is the
\* argument left out
ValidateOrderParams ==
    /\ exited = NoneV
    /\ cli = NoneV
    /\ last.op = "none"
    /\ \E symbol \in SymbolInputs, side \in SideInputs,
          order_type \in OrderTypeInputs, quantity \in QuantityInputs,
          price \in NumInputs, stop_price \in NumInputs :
          last' = Call("validate_order_params",
                       [symbol |-> symbol, side |-> side, order_type |-> order_type,
                        quantity |-> quantity, price |-> price,
                        stop_price |-> stop_price],
                       <<>>, <<>>, 0, <<>>, TRUE,
                       validate_order_params(symbol, side, order_type, quantity,
                                             price, stop_price))
    /\ UNCHANGED <<cli, exited, api_key, secret_key, client, time_offset, ticks, warnings,
                   dispatches, order, ostate, placeCalls>>

\* the state after __init__ did c, the time endpoint answering resp
Constructed(c, resp) ==
    /\ client' = c.state
    /\ time_offset' = c.offset
    /\ warnings' = warnings + (IF c.warned THEN 1 ELSE 0)
    /\ dispatches' = dispatches + Len(c.sent)
    /\ last' = Call("__init__", NoneV, c.sent, <<>>, 0,
                    IF c.sent = <<>> THEN <<>> ELSE <<resp>>, TRUE, c.result)

\* BinanceFuturesClient()
Construct ==
    /\ exited = NoneV
    /\ client = "none"
    /\ \E resp \in SyncResponses(now_ms) :
          Constructed(ClientInit(api_key, secret_key, resp, now_ms), resp)
    /\ UNCHANGED <<cli, exited, api_key, secret_key, ticks, order, ostate, placeCalls>>

\* how far the local clock has moved on when the next request reads it
Elapsed == IF ticks < MaxTicks THEN {0, 1} ELSE {0}

\* the state after engine operation op, given input, did r
Called(op, input, r) ==
    /\ last' = Call(op, input, r.sent, r.signed, 0, <<>>, r.done, r.result)
    /\ dispatches' = dispatches + Len(r.sent)
    /\ time_offset' = time_offset

\* one of the engine's operations, called directly on the client, up to its
\* dispatch
EngineOp ==
    /\ exited = NoneV
    /\ client = "ready"
    /\ last.done
    /\ order = NoneV
    /\ dispatches < MaxDispatch
    /\ \E op \in EngineOps \ {"place_order"}, dt \in Elapsed,
          symbol \in {NoneV, StrV(<<"b","t","c">>)} :
          /\ symbol = NoneV => op \in {"get_exchange_info", "get_open_orders"}
          /\ IF cli = NoneV THEN TRUE ELSE Runs(op)
          /\ Called(op, symbol,
                    EngineCall(op, OpParams(op, symbol, IntV(7)), secret_key,
                               _get_timestamp(now_ms + dt, time_offset)))
          /\ ticks' = ticks + dt
    /\ UNCHANGED <<cli, exited, api_key, secret_key, client, warnings,
                   order, ostate, placeCalls>>

\* one of the management functions of bot/orders.py, up to the dispatch of
\* its request
ManageOrders ==
    /\ exited = NoneV
    /\ client = "ready"
    /\ last.done
    /\ order = NoneV
    /\ dispatches < MaxDispatch
    /\ \E op \in ManagementOps, dt \in Elapsed,
          symbol \in SymbolInputs \cup {NoneV}, order_id \in OrderIdInputs :
          /\ op # "orders.cancel_order" => order_id = IntV(7)
          /\ IF cli = NoneV THEN TRUE ELSE Runs(op)
          /\ Called(op, [symbol |-> symbol, order_id |-> order_id],
                    ManagementCall(op, symbol, order_id, secret_key,
                                   _get_timestamp(now_ms + dt, time_offset)))
          /\ ticks' = ticks + dt
    /\ UNCHANGED <<cli, exited, api_key, secret_key, client, warnings,
                   order, ostate, placeCalls>>

\* client.place_order(symbol, side, order_type, quantity, **kwargs) called
\* directly, up to its dispatch
PlaceOrderDirect ==
    /\ exited = NoneV
    /\ cli = NoneV
    /\ client = "ready"
    /\ last.done
    /\ order = NoneV
    /\ dispatches < MaxDispatch
    /\ \E dt \in Elapsed, kwargs \in KwargInputs :
          /\ Called("place_order", kwargs,
                    EngineCall("place_order",
                               PlaceOrderParams(StrV(<<"b","t","c">>),
                                                StrV(<<"b","u","y">>),
                                                StrV(MARKET), FinV(MaxNum), kwargs),
                               secret_key, _get_timestamp(now_ms + dt, time_offset)))
          /\ ticks' = ticks + dt
    /\ UNCHANGED <<cli, exited, api_key, secret_key, client, warnings,
                   order, ostate, placeCalls>>

\* MarketOrder(...), LimitOrder(...) or StopLimitOrder(...)
NewOrder ==
    /\ exited = NoneV
    /\ IF cli = NoneV THEN TRUE ELSE cli.cmd \in TradeCommands
    /\ client = "ready"
    /\ order = NoneV
    /\ last.op = "__init__"
    /\ \E symbol \in SymbolInputs, side \in SideInputs, quantity \in NumInputs :
          \/ order' = MarketOrder(symbol, side, quantity)
          \/ \E price \in NumInputs : order' = LimitOrder(symbol, side, quantity, price)
          \/ \E stop_price \in NumInputs, limit_price \in NumInputs :
                order' = StopLimitOrder(symbol, side, quantity, stop_price, limit_price)
    /\ ostate' = "Created"
    /\ placeCalls' = 0
    /\ last' = Call("new_order", NoneV, <<>>, <<>>, 0, <<>>, TRUE, Ok(NoneV))
    /\ UNCHANGED <<cli, exited, api_key, secret_key, client, time_offset, ticks, warnings,
                   dispatches>>

\* the state after validate() did r
ValidateDid(r) ==
    /\ order' = r.order
    /\ ostate' = IF ostate \in {"Executed", "Failed"} THEN ostate
                 ELSE IF r.result.ok THEN "Validated" ELSE "Rejected"
    /\ last' = Call("validate", order, <<>>, <<>>, 0, <<>>, TRUE, r.result)

\* order.validate()
Validate ==
    /\ exited = NoneV
    /\ IF cli = NoneV THEN TRUE ELSE AtTrade("new_order")
    /\ order # NoneV
    /\ last.done
    /\ ValidateDid(validate(order))
    /\ UNCHANGED <<cli, exited, api_key, secret_key, client, time_offset, ticks, warnings,
                   dispatches, placeCalls>>

\* order.quantity = quantity, assigned by the caller of an instance that
\* holds a validation (before the first validation the assignment gives the
\* instance the constructor would have given)
SetQuantity ==
    /\ exited = NoneV
    /\ cli = NoneV
    /\ order # NoneV
    /\ last.done
    /\ order.validated # NoneV
    /\ \E quantity \in QuantityEdits \ {order.quantity} :
          order' = [order EXCEPT !.quantity = quantity]
    /\ UNCHANGED <<cli, exited, api_key, secret_key, client, time_offset, ticks, warnings,
                   dispatches, last, ostate, placeCalls>>

\* order.summary()
Summary ==
    /\ exited = NoneV
    /\ IF cli = NoneV THEN TRUE ELSE (AtTrade("validate") /\ last.result.ok)
    /\ order # NoneV
    /\ last.done
    /\ last' = Call("summary", order, <<>>, <<>>, 0, <<>>, TRUE, summary(order))
    /\ UNCHANGED <<cli, exited, api_key, secret_key, client, time_offset, ticks, warnings,
                   dispatches, order, ostate, placeCalls>>

\* the state after execute(client) did r
ExecuteDid(r) ==
    /\ order' = r.order
    /\ ostate' = IF r.placed = 0 THEN "Rejected" ELSE "Validated"
    /\ placeCalls' = placeCalls + r.placed
    /\ dispatches' = dispatches + Len(r.sent)
    /\ time_offset' = time_offset
    /\ last' = Call("execute", order, r.sent, r.signed, r.placed, <<>>,
                    r.done, r.result)

\* order.execute(client), up to the dispatch of place_order; a call that stops
\* at validation reads no clock
Execute ==
    /\ exited = NoneV
    /\ IF cli = NoneV THEN TRUE ELSE Confirmed("summary")
    /\ order # NoneV
    /\ last.done
    /\ client = "ready"
    /\ dispatches < MaxDispatch
    /\ \E dt \in (IF OrderValidation(order).ok THEN Elapsed ELSE {0}) :
          /\ ExecuteDid(execute(order, secret_key,
                                _get_timestamp(now_ms + dt, time_offset)))
          /\ ticks' = ticks + dt
    /\ UNCHANGED <<cli, exited, api_key, secret_key, client, warnings>>

\* A variant of Received in which a request that failed resets the clock
\* offset.
Received_ResetsOffset(c) ==
    /\ last' = c
    /\ dispatches' = dispatches + (Len(c.sent) - Len(last.sent))
    /\ time_offset' = IF c.done /\ ~c.result.ok THEN 0 ELSE time_offset
    /\ ostate' = IF last.op # "execute" \/ ~c.done THEN ostate
                 ELSE IF c.result.ok THEN "Executed" ELSE "Failed"

\* the state after the blocked call went on to c; no line of _request or of
\* the operations assigns _time_offset
Received(c) ==
    /\ last' = c
    /\ dispatches' = dispatches + (Len(c.sent) - Len(last.sent))
    /\ time_offset' = time_offset
    /\ ostate' = IF last.op # "execute" \/ ~c.done THEN ostate
                 ELSE IF c.result.ok THEN "Executed" ELSE "Failed"

\* the venue answers the request in flight, or the transport fails: the rest
\* of _request, and with it the rest of the call that is blocked in it
Receive ==
    /\ exited = NoneV
    /\ ~last.done
    /\ \E resp \in Responses : Received(Completion(last, resp))
    /\ UNCHANGED <<cli, exited, api_key, secret_key, client, ticks, warnings,
                   order, placeCalls>>

\* a command of cli.py starts
Run ==
    /\ exited = NoneV
    /\ cli = NoneV
    /\ client = "none"
    /\ last.op = "none"
    /\ \E cmd \in Commands : cli' = [cmd |-> cmd, confirmed |-> "unasked"]
    /\ UNCHANGED <<exited, api_key, secret_key, client, time_offset, ticks, warnings,
                   dispatches, last, order, ostate, placeCalls>>

\* the confirmation prompt: show_order_summary(summary) of trade, after
\* order.summary(), and Confirm.ask of cancel-all, after the client is built
AskConfirm ==
    /\ exited = NoneV
    /\ cli # NoneV
    /\ cli.confirmed = "unasked"
    /\ \/ AtTrade("summary")
       \/ cli.cmd = "cancel-all" /\ last.op = "__init__" /\ client = "ready"
    /\ \E answer \in {"yes", "no"} : cli' = [cli EXCEPT !.confirmed = answer]
    /\ UNCHANGED <<exited, api_key, secret_key, client, time_offset, ticks, warnings,
                   dispatches, last, order, ostate, placeCalls>>

\* the points where command cmd returns or raises, by the last call it made:
\* trade after a failed construction, with flags of the direct mode missing
\* or on choice 4 of the menu, after a failed validation, when the operator
\* declined, and after execute
Ends(cmd) ==
    CASE cmd \in TradeCommands ->
            \/ last.op = "__init__"
            \/ last.op = "validate" /\ ~last.result.ok
            \/ last.op = "summary" /\ cli.confirmed = "no"
            \/ last.op = "execute"
      [] cmd = "balance" ->
            \/ last.op = "__init__" /\ ~last.result.ok
            \/ last.op = "get_balance"
      [] cmd = "price" ->
            \/ last.op = "__init__" /\ ~last.result.ok
            \/ last.op = "get_price"
      [] cmd = "open-orders" ->
            \/ last.op = "__init__" /\ ~last.result.ok
            \/ last.op = "orders.get_open_orders"
      [] cmd = "cancel" ->
            \/ last.op = "__init__" /\ ~last.result.ok
            \/ last.op = "orders.cancel_order"
      [] cmd = "cancel-all" ->
            \/ last.op = "__init__" /\ ~last.result.ok
            \/ last.op = "__init__" /\ cli.confirmed = "no"
            \/ last.op = "orders.cancel_all_orders"

\* the exit code of the process: trade raises typer.Exit(1) when the client
\* cannot be built and, in its direct mode, when flags are missing, on a
\* ValidationError and on a BinanceAPIError, and lets any other exception of
\* execute out; the interactive mode and the other commands show the error and
\* return
ExitCode(cmd) ==
    IF cmd \notin TradeCommands THEN 0
    ELSE IF last.op = "__init__" /\ ~last.result.ok THEN 1
    ELSE IF cmd = "trade_interactive" THEN 0
    ELSE IF last.op = "__init__" THEN 1
    ELSE IF last.result.ok THEN 0
    ELSE 1

\* the command of cli.py that runs ends
Exit ==
    /\ exited = NoneV
    /\ cli # NoneV
    /\ last.done
    /\ Ends(cli.cmd)
    /\ exited' = [cmd |-> cli.cmd, code |-> ExitCode(cli.cmd)]
    /\ UNCHANGED <<cli, api_key, secret_key, client, time_offset, ticks, warnings,
                   dispatches, last, order, ostate, placeCalls>>

Next ==
    \/ Run
    \/ AskConfirm
    \/ ValidateSymbol
    \/ ValidateOrderParams
    \/ Construct
    \/ EngineOp
    \/ PlaceOrderDirect
    \/ ManageOrders
    \/ NewOrder
    \/ Validate
    \/ SetQuantity
    \/ Summary
    \/ Execute
    \/ Receive
    \/ Exit

Spec == Init /\ [][Next]_vars

(***************************************************************************)
(* Properties.                                                             *)
(***************************************************************************)

\* C1: an execute(client) on an order whose fields fail validation raises
\* the validation error and does nothing else: client.place_order is not
\* called, no request is built, signed or sent.
C1_FailedValidationSendsNothing ==
    (last.op = "execute" /\ ~OrderValidation(last.input).ok) =>
        /\ last.done
        /\ last.result = OrderValidation(last.input)
        /\ last.result.exc = "ValidationError"
        /\ last.placed = 0
        /\ last.sent = <<>>
        /\ last.signed = <<>>
        /\ last.answers = <<>>

\* an execute on a stop-limit order with a bad field has raised
C1_Witness ==
    /\ last.op = "execute"
    /\ last.input.cls = "StopLimitOrder"
    /\ ~OrderValidation(last.input).ok
    /\ last.done
    /\ ~last.result.ok

\* C2: in every request an order's execute sends through place_order, the
\* quantity, price and stopPrice parameters are strictly positive finite
\* numbers.
C2_WireNumbersPositiveFinite ==
    (last.op = "execute" /\ last.sent # <<>>) =>
        \A i \in DOMAIN last.sent[1].params :
            last.sent[1].params[i][1] \in {"quantity", "price", "stopPrice"} =>
                /\ ParseFloat(last.sent[1].params[i][2].s).ok
                /\ ParseFloat(last.sent[1].params[i][2].s).val.cls = "fin"
                /\ ParseFloat(last.sent[1].params[i][2].s).val.v > 0

\* C3: an engine operation whose request got a JSON answer raises
\* ApiError(code, msg) with the venue's code and msg exactly when the body
\* is an object with a code other than 0 and 200, whatever the HTTP status;
\* otherwise it returns the parsed body unchanged.
C3_ApiErrorIffCode ==
    (/\ last.op \in EngineOps
     /\ last.done
     /\ last.answers # <<>>
     /\ last.answers[1].kind = "response"
     /\ last.answers[1].body.type # "not_json") =>
        IF /\ last.answers[1].body.type = "dict"
           /\ last.answers[1].body.has_code
           /\ last.answers[1].body.code \notin {0, 200}
        THEN /\ ~last.result.ok
             /\ last.result.exc = "BinanceAPIError"
             /\ last.result.code = last.answers[1].body.code
             /\ last.answers[1].body.has_msg =>
                    last.result.msg = last.answers[1].body.msg
        ELSE last.result = Ok(last.answers[1].body)

\* place_order got the venue's error -2019 on HTTP status 200 and raised it
C3_Witness ==
    /\ last.op = "place_order"
    /\ last.done
    /\ last.answers # <<>>
    /\ last.answers[1].kind = "response"
    /\ last.answers[1].status = 200
    /\ last.answers[1].body.type = "dict"
    /\ last.answers[1].body.has_code
    /\ last.answers[1].body.code = -2019
    /\ last.result = ApiError(-2019, "Margin is insufficient.")

\* C4: in every signed request the dict that was signed is the dict that is
\* sent without its signature entry: it has the timestamp, it has no
\* signature entry, and the signature sent is the one of that dict.
C4_SignatureCoversSentParams ==
    (last.signed # <<>> /\ last.sent # <<>>) =>
        /\ DictHas(last.signed[1], "timestamp")
        /\ ~DictHas(last.signed[1], "signature")
        /\ DictDel(last.sent[1].params, "signature") = last.signed[1]
        /\ DictGet(last.sent[1].params, "signature")
              = _sign(secret_key, DictDel(last.sent[1].params, "signature"))

\* C5: a request carries timestamp and signature when it comes from
\* place_order (directly or through execute), cancel_order,
\* cancel_all_orders, get_open_orders, get_balance or get_account, and
\* carries neither when it comes from get_price, get_exchange_info or the
\* time sync of the construction.
C5_SignedIffPrivate ==
    \A i \in DOMAIN last.sent :
        /\ last.op \in {"place_order", "execute", "cancel_order", "cancel_all_orders",
                        "get_open_orders", "get_balance", "get_account",
                        "get_price", "get_exchange_info", "__init__"}
                            \cup ManagementOps
        /\ last.op \in {"place_order", "execute", "cancel_order", "cancel_all_orders",
                        "get_open_orders", "get_balance", "get_account"}
                            \cup ManagementOps =>
              /\ DictHas(last.sent[i].params, "timestamp")
              /\ DictHas(last.sent[i].params, "signature")
              /\ last.signed # <<>>
        /\ last.op \in {"get_price", "get_exchange_info", "__init__"} =>
              /\ ~DictHas(last.sent[i].params, "timestamp")
              /\ ~DictHas(last.sent[i].params, "signature")
              /\ last.signed = <<>>

\* get_price sent its request with the symbol alone
C5_Witness ==
    /\ last.op = "get_price"
    /\ last.sent # <<>>
    /\ DictKeys(last.sent[1].params) = {"symbol"}

\* C6: when the time sync of a construction raises (the transport fails,
\* the body is no JSON or no object), the construction succeeds with
\* offset 0 and one warning logged.
C6_SyncFailureKeepsConstruction ==
    (/\ last.op = "__init__"
     /\ last.answers # <<>>
     /\ (\/ last.answers[1].kind = "exception"
         \/ last.answers[1].body.type # "dict")) =>
        /\ client = "ready"
        /\ time_offset = 0
        /\ warnings = 1
        /\ last.result = Ok(NoneV)

\* a construction whose time sync met a connection error has succeeded
C6_Witness ==
    /\ last.op = "__init__"
    /\ last.answers # <<>>
    /\ last.answers[1].kind = "exception"
    /\ last.answers[1].exc = "ConnectionError"
    /\ client = "ready"
    /\ time_offset = 0
    /\ warnings = 1

\* C7: with the API key or the secret key absent or empty there is never a
\* client instance and never a request: a construction raises the
\* configuration error before the time sync.
C7_NoCredentialsNoClient ==
    (Falsy(api_key) \/ Falsy(secret_key)) =>
        /\ client \in {"none", "config_error"}
        /\ dispatches = 0
        /\ last.sent = <<>>
        /\ (last.op = "__init__") <=> (client = "config_error")
        /\ last.op = "__init__" =>
              last.result = Raise("ValueError", "API_Key and Secret_Key must be set")

\* a construction with a key and an empty secret has raised
C7_Witness ==
    /\ client = "config_error"
    /\ ~Falsy(api_key)
    /\ secret_key = StrV(<<>>)
    /\ last.op = "__init__"
    /\ ~last.result.ok

\* C8: Executed, Failed and Rejected are terminal: no step takes an order
\* instance out of one of them, and an instance in one of them places no
\* further order.
C8_TerminalStates ==
    [][(ostate \in {"Executed", "Failed", "Rejected"}) =>
          (ostate' = ostate /\ placeCalls' = placeCalls)]_vars

\* C9: no call sends more than one request, no execute calls place_order
\* more than once, every request gets at most one answer, and a transport
\* failure or a venue error of that one attempt is what the caller gets,
\* unchanged.
C9_NoRetry ==
    /\ Len(last.sent) <= 1
    /\ last.placed <= 1
    /\ Len(last.answers) <= Len(last.sent)
    /\ (last.op = "execute" /\ last.sent # <<>>) => last.placed = 1
    /\ (last.op # "__init__" /\ last.answers # <<>>) =>
          /\ last.done
          /\ last.answers[1].kind = "exception" =>
                last.result = Raise(last.answers[1].exc, last.answers[1].detail)
          /\ (/\ last.answers[1].kind = "response"
              /\ last.answers[1].body.type = "dict"
              /\ last.answers[1].body.has_code
              /\ last.answers[1].body.code \notin {0, 200}) =>
                /\ last.result.exc = "BinanceAPIError"
                /\ last.result.code = last.answers[1].body.code

\* an execute whose one request timed out has raised the timeout
C9_Witness ==
    /\ last.op = "execute"
    /\ last.done
    /\ last.placed = 1
    /\ Len(last.sent) = 1
    /\ last.answers # <<>>
    /\ last.answers[1].kind = "exception"
    /\ last.answers[1].exc = "Timeout"
    /\ last.result = Raise("Timeout", "attempt 1")

\* C10: the request of an execute carries, besides timestamp and signature,
\* exactly symbol, side, type and quantity for a market order (type
\* MARKET); these and price and timeInForce=GTC for a limit order (type
\* LIMIT); these and price = the limit price, stopPrice = the stop price
\* and timeInForce=GTC for a stop-limit order (type STOP).
C10_WireParams ==
    (last.op = "execute" /\ last.sent # <<>>) =>
        Range(DictDel(DictDel(last.sent[1].params, "timestamp"), "signature")) =
            {<<"symbol", StrV(Upper(Strip(last.input.symbol.s)))>>,
             <<"side", StrV(Upper(Strip(last.input.side.s)))>>,
             <<"quantity", StrV(FloatStr(PyFloat(last.input.quantity).val))>>}
            \cup
            (IF last.input.cls = "MarketOrder"
             THEN {<<"type", StrV(<<"M","A","R","K","E","T">>)>>}
             ELSE IF last.input.cls = "LimitOrder"
             THEN {<<"type", StrV(<<"L","I","M","I","T">>)>>,
                   <<"price", StrV(FloatStr(PyFloat(last.input.price).val))>>,
                   <<"timeInForce", StrV(<<"G","T","C">>)>>}
             ELSE {<<"type", StrV(<<"S","T","O","P">>)>>,
                   <<"price", StrV(FloatStr(PyFloat(last.input.limit_price).val))>>,
                   <<"stopPrice", StrV(FloatStr(PyFloat(last.input.stop_price).val))>>,
                   <<"timeInForce", StrV(<<"G","T","C">>)>>})

\* a stop-limit order with stop price 2 and limit price 1 has been sent
C10_Witness ==
    /\ last.op = "execute"
    /\ last.sent # <<>>
    /\ last.input.cls = "StopLimitOrder"
    /\ last.input.stop_price = FinV(MaxNum)
    /\ last.input.limit_price = FinV(1)
    /\ DictGet(last.sent[1].params, "stopPrice") = StrV(FloatStr(FinV(MaxNum)))
    /\ DictGet(last.sent[1].params, "price") = StrV(<<"1", ".", "0">>)

\* C11 as claimed: a LIMIT call of validate_order_params with p <= 0 fails
\* with an invalid-input message and with p left out fails with the
\* price-is-required message, whatever symbol, side and quantity are.
C11_LimitPriceFailureKinds ==
    (/\ last.op = "validate_order_params"
     /\ Upper(Strip(last.input.order_type.s)) = LIMIT) =>
        /\ last.input.price.t = "none" =>
              last.result = Raise("ValidationError", "Price is required for LIMIT orders")
        /\ (/\ last.input.price.t # "none"
            /\ PyFloat(last.input.price).ok
            /\ LeqZero(PyFloat(last.input.price).val)) =>
              /\ ~last.result.ok
              /\ last.result.exc = "ValidationError"
              /\ last.result.msg # "Price is required for LIMIT orders"

\* C11 as amended: with p <= 0 the call fails with an invalid-input message
\* for every symbol, side and quantity; with p left out it fails with the
\* price-is-required message when symbol, side and quantity are valid, and
\* with the message of the first invalid one of them otherwise.  The two
\* messages differ.
C11_LimitPriceFailureKindsValid ==
    (/\ last.op = "validate_order_params"
     /\ Upper(Strip(last.input.order_type.s)) = LIMIT) =>
        /\ (/\ last.input.price.t # "none"
            /\ PyFloat(last.input.price).ok
            /\ LeqZero(PyFloat(last.input.price).val)) =>
              /\ ~last.result.ok
              /\ last.result.exc = "ValidationError"
              /\ last.result.msg # "Price is required for LIMIT orders"
              /\ (/\ validate_symbol(last.input.symbol).ok
                  /\ validate_side(last.input.side).ok
                  /\ validate_quantity(last.input.quantity).ok) =>
                    last.result.msg = "Price must be greater than 0"
        /\ last.input.price.t = "none" =>
              last.result =
                 IF ~validate_symbol(last.input.symbol).ok
                 THEN validate_symbol(last.input.symbol)
                 ELSE IF ~validate_side(last.input.side).ok
                 THEN validate_side(last.input.side)
                 ELSE IF ~validate_quantity(last.input.quantity).ok
                 THEN validate_quantity(last.input.quantity)
                 ELSE Raise("ValidationError", "Price is required for LIMIT orders")

\* a LIMIT call without price and with valid symbol, side and quantity has
\* failed with the price-is-required message
C11_Witness ==
    /\ last.op = "validate_order_params"
    /\ last.input.order_type = StrV(LIMIT)
    /\ last.input.price = NoneV
    /\ validate_symbol(last.input.symbol).ok
    /\ validate_side(last.input.side).ok
    /\ validate_quantity(last.input.quantity).ok
    /\ last.result = Raise("ValidationError", "Price is required for LIMIT orders")

\* C12: a STOP_LIMIT call with valid symbol, side and quantity fails naming
\* the limit price as missing when price is left out, whatever stop_price
\* is, and naming the stop price as missing when price is given and
\* stop_price is left out, whatever the price's value is.
C12_StopLimitPresenceOrder ==
    (/\ last.op = "validate_order_params"
     /\ Upper(Strip(last.input.order_type.s)) = STOP_LIMIT
     /\ validate_symbol(last.input.symbol).ok
     /\ validate_side(last.input.side).ok
     /\ validate_quantity(last.input.quantity).ok) =>
        /\ last.input.price.t = "none" =>
              last.result = Raise("ValidationError",
                                  "Limit price is required for STOP_LIMIT orders")
        /\ (last.input.price.t # "none" /\ last.input.stop_price.t = "none") =>
              last.result = Raise("ValidationError",
                                  "Stop (trigger) price is required for STOP_LIMIT orders")

\* a STOP_LIMIT call with price 0 and no stop price has failed naming the
\* stop price as missing
C12_Witness ==
    /\ last.op = "validate_order_params"
    /\ Upper(Strip(last.input.order_type.s)) = STOP_LIMIT
    /\ last.input.price = FinV(0)
    /\ last.input.stop_price = NoneV
    /\ last.result = Raise("ValidationError",
                           "Stop (trigger) price is required for STOP_LIMIT orders")

\* C13: a MARKET call of validate_order_params ends as the same call
\* without price and stop_price ends, and a validated output has the keys
\* symbol, side, order_type and quantity only.
C13_MarketIgnoresPrice ==
    (/\ last.op = "validate_order_params"
     /\ Upper(Strip(last.input.order_type.s)) = MARKET) =>
        /\ last.result = validate_order_params(last.input.symbol, last.input.side,
                                               last.input.order_type,
                                               last.input.quantity, NoneV, NoneV)
        /\ last.result.ok =>
              DOMAIN last.result.val = {"symbol", "side", "order_type", "quantity"}
        /\ (/\ validate_symbol(last.input.symbol).ok
            /\ validate_side(last.input.side).ok
            /\ validate_quantity(last.input.quantity).ok) => last.result.ok

\* a MARKET call with price 0 and a non-numeric stop price has succeeded
C13_Witness ==
    /\ last.op = "validate_order_params"
    /\ Upper(Strip(last.input.order_type.s)) = MARKET
    /\ last.input.price = FinV(0)
    /\ last.input.stop_price = StrV(<<"a","b","c">>)
    /\ last.result.ok
    /\ last.result.val.order_type = MARKET

\* C17 as claimed: validate_symbol accepts every string of two or more
\* letters, digits and underscores, returns its uppercase form, and gives
\* the same again when applied to what it returned; it rejects every string
\* that after trimming is empty, shorter than two characters or has another
\* character.
C17_SymbolIdempotent ==
    (last.op = "validate_symbol" /\ last.input.t = "str") =>
        /\ (/\ Len(last.input.s) >= 2
            /\ Range(last.input.s) \subseteq AlnumSet \cup {"_"}) =>
              /\ last.result = Ok(Upper(last.input.s))
              /\ validate_symbol(StrV(last.result.val)) = last.result
        /\ (\/ Len(Strip(last.input.s)) < 2
            \/ ~(Range(Strip(last.input.s)) \subseteq AlnumSet \cup {"_"})) =>
              /\ ~last.result.ok
              /\ last.result.exc = "ValidationError"

\* C17 as amended: validate_symbol accepts every string of two or more
\* letters, digits and underscores that has a letter or a digit, returns its
\* uppercase form, and gives the same again when applied to what it
\* returned; it rejects every value that is no string and every string that
\* after trimming is empty, shorter than two characters, has another
\* character or has underscores only; whatever it accepts it returns
\* trimmed and in uppercase.
C17_SymbolIdempotentAlnum ==
    (last.op = "validate_symbol") =>
        /\ last.input.t # "str" =>
              /\ ~last.result.ok
              /\ last.result.exc = "ValidationError"
        /\ (/\ last.input.t = "str"
            /\ Len(last.input.s) >= 2
            /\ Range(last.input.s) \subseteq AlnumSet \cup {"_"}
            /\ Range(last.input.s) \cap AlnumSet # {}) =>
              /\ last.result = Ok(Upper(last.input.s))
              /\ validate_symbol(StrV(last.result.val)) = last.result
        /\ (/\ last.input.t = "str"
            /\ \/ Len(Strip(last.input.s)) < 2
               \/ ~(Range(Strip(last.input.s)) \subseteq AlnumSet \cup {"_"})
               \/ Range(Strip(last.input.s)) \subseteq {"_"}) =>
              /\ ~last.result.ok
              /\ last.result.exc = "ValidationError"
        /\ last.result.ok =>
              /\ last.result.val = Upper(Strip(last.input.s))
              /\ validate_symbol(StrV(last.result.val)) = last.result

\* validate_symbol("b_T") has returned "B_T"
C17_Witness ==
    /\ last.op = "validate_symbol"
    /\ last.input = StrV(<<"b", "_", "T">>)
    /\ last.result = Ok(<<"B", "_", "T">>)

\* C18: the clock offset changes only in the construction, whose time
\* sync sends its one request; on a client that exists no step changes it,
\* whatever operation runs and however it ends.
C18_OffsetWrittenBySyncOnly ==
    [][/\ (time_offset' # time_offset) =>
             (client = "none" /\ last'.op = "__init__" /\ last'.sent = <<TimeRequest>>)
       /\ (client = "ready") => (time_offset' = time_offset)
       /\ (client = "none" /\ client' = "ready") => (last'.sent = <<TimeRequest>>)]_vars

\* cancel_order has failed on a client whose sync left the offset 7
C18_Witness ==
    /\ client = "ready"
    /\ time_offset = 7
    /\ last.op = "cancel_order"
    /\ last.done
    /\ ~last.result.ok

\* C19: after a construction the clock offset is server time minus local
\* time when the time endpoint's answer carried a server time, and 0 in
\* every other case.
C19_OffsetOrZero ==
    (last.op = "__init__" /\ client = "ready") =>
        time_offset =
            IF /\ last.answers[1].kind = "response"
               /\ last.answers[1].body.type = "dict"
               /\ last.answers[1].body.has_serverTime
            THEN last.answers[1].body.serverTime - now_ms
            ELSE 0

\* C20 as claimed: a signed request never carries the timestamp and
\* signature pair of the signed request before it.
C20_PairNeverReused ==
    [][(/\ last.done /\ ~last'.done
        /\ last.sent # <<>> /\ last.signed # <<>>
        /\ last'.sent # <<>> /\ last'.signed # <<>>) =>
          ~(/\ DictGet(last'.sent[1].params, "timestamp")
                 = DictGet(last.sent[1].params, "timestamp")
            /\ DictGet(last'.sent[1].params, "signature")
                 = DictGet(last.sent[1].params, "signature"))]_vars

\* C20 as amended: every signed request carries the timestamp
\* now_ms + offset of the clock reading of its own call and the signature
\* of its own parameters with that timestamp; a signed request carries the
\* pair of the signed request before it only when the clock reads the same
\* millisecond and the parameters are the same.
C20_FreshTimestamp ==
    /\ [](last.signed # <<>> =>
            /\ DictGet(last.signed[1], "timestamp") = IntV(now_ms + time_offset)
            /\ DictGet(last.sent[1].params, "timestamp") = IntV(now_ms + time_offset)
            /\ DictGet(last.sent[1].params, "signature")
                  = _sign(secret_key, last.signed[1]))
    /\ [][(/\ last.done /\ ~last'.done
           /\ last.sent # <<>> /\ last.signed # <<>>
           /\ last'.sent # <<>> /\ last'.signed # <<>>
           /\ DictGet(last'.sent[1].params, "timestamp")
                 = DictGet(last.sent[1].params, "timestamp")
           /\ DictGet(last'.sent[1].params, "signature")
                 = DictGet(last.sent[1].params, "signature")) =>
             (ticks' = ticks /\ last'.signed = last.signed)]_vars

\* a signed request sent one millisecond after the construction carries the
\* timestamp of that millisecond
C20_Witness ==
    /\ ticks = 1
    /\ time_offset = 7
    /\ last.op = "get_balance"
    /\ last.signed # <<>>
    /\ DictGet(last.sent[1].params, "timestamp") = IntV(StartMs + 1 + 7)

\* C14: a summary() call sends nothing, places nothing and leaves the
\* client, its clock offset, the request count and the instance as they
\* are; it returns the display mapping of the cached validation when the
\* instance holds one, and otherwise that of a fresh validation of the
\* fields, or the error of that validation.
C14_SummaryHasNoEffect ==
    /\ [](last.op = "summary" =>
            /\ last.done
            /\ last.sent = <<>> /\ last.signed = <<>> /\ last.placed = 0
            /\ last.input.validated # NoneV =>
                  /\ last.result.ok
                  /\ last.result.val.Symbol = last.input.validated.symbol
                  /\ last.result.val.Side = last.input.validated.side
                  /\ last.result.val.Quantity = last.input.validated.quantity
                  /\ last.input.cls # "MarketOrder" =>
                        last.result.val.LimitPrice = last.input.validated.price
                  /\ last.input.cls = "StopLimitOrder" =>
                        last.result.val.StopPrice = last.input.validated.stop_price
            /\ (last.input.validated = NoneV /\ ~OrderValidation(last.input).ok) =>
                  last.result = OrderValidation(last.input)
            /\ (last.input.validated = NoneV /\ OrderValidation(last.input).ok) =>
                  /\ last.result.ok
                  /\ last.result.val.Symbol = Upper(Strip(last.input.symbol.s))
                  /\ last.result.val.Side = Upper(Strip(last.input.side.s))
                  /\ last.result.val.Quantity = PyFloat(last.input.quantity).val
                  /\ last.input.cls = "LimitOrder" =>
                        last.result.val.LimitPrice = PyFloat(last.input.price).val
                  /\ last.input.cls = "StopLimitOrder" =>
                        /\ last.result.val.LimitPrice = PyFloat(last.input.limit_price).val
                        /\ last.result.val.StopPrice = PyFloat(last.input.stop_price).val)
    /\ [][(last'.op = "summary" /\ last' # last) =>
             /\ order' = order /\ last'.input = order
             /\ dispatches' = dispatches /\ placeCalls' = placeCalls
             /\ client' = client /\ time_offset' = time_offset
             /\ warnings' = warnings /\ ticks' = ticks /\ ostate' = ostate]_vars

\* summary() of an instance whose quantity was set to 0 after its validation
\* has returned the validated quantity
C14_Witness ==
    /\ last.op = "summary"
    /\ last.input.validated # NoneV
    /\ last.input.quantity = FinV(0)
    /\ last.result.ok
    /\ last.result.val.Quantity = FinV(MaxNum)
    /\ placeCalls = 1

\* C15: cancel_order of bot/orders.py fails with a validation error, no
\* request sent, when the symbol is invalid or order_id has no integer value;
\* in every other case it sends exactly one signed DELETE that carries the
\* normalized symbol and the integer id.
C15_CancelValidatesThenDeletes ==
    last.op = "orders.cancel_order" =>
        IF \/ ~validate_symbol(last.input.symbol).ok
           \/ ~PyInt(last.input.order_id).ok
        THEN /\ last.sent = <<>>
             /\ last.done
             /\ ~last.result.ok
             /\ last.result.exc = "ValidationError"
        ELSE /\ Len(last.sent) = 1
             /\ last.sent[1].method = "DELETE"
             /\ last.sent[1].path = "/fapi/v1/order"
             /\ DictHas(last.sent[1].params, "signature")
             /\ last.signed # <<>>
             /\ DictGet(last.sent[1].params, "symbol")
                   = StrV(Upper(Strip(last.input.symbol.s)))
             /\ DictGet(last.sent[1].params, "orderId")
                   = PyInt(last.input.order_id).val

\* C16: a command of the CLI that has ended has a nonzero exit code when the
\* client could not be configured, when a validation failed (outside the
\* interactive mode) and when the API answered trade's direct mode with an
\* error, and exit code 0 when its last call succeeded.
C16_ExitCodes ==
    exited # NoneV =>
        /\ (last.op = "__init__" /\ ~last.result.ok) => exited.code # 0
        /\ (/\ exited.cmd # "trade_interactive"
            /\ ~last.result.ok
            /\ last.result.exc = "ValidationError") => exited.code # 0
        /\ (/\ exited.cmd = "trade"
            /\ ~last.result.ok
            /\ last.result.exc = "BinanceAPIError") => exited.code # 0
        /\ (last.op # "__init__" /\ last.result.ok) => exited.code = 0

\* C22: an execute validates the instance's current fields itself: when they
\* pass, it places the order with them (whatever an earlier validate cached)
\* and caches the new validation; when they fail, it places nothing.  A
\* validate or an execute whose validation fails leaves the cached validation
\* as it was.
C22_ExecuteRevalidates ==
    /\ (last.op = "execute" /\ OrderValidation(last.input).ok) =>
          /\ Len(last.sent) = 1
          /\ last.placed = 1
          /\ DictGet(last.sent[1].params, "quantity")
                = StrV(FloatStr(PyFloat(last.input.quantity).val))
          /\ order.validated = OrderValidation(last.input).val
    /\ (last.op = "execute" /\ ~OrderValidation(last.input).ok) =>
          /\ last.sent = <<>>
          /\ last.placed = 0
          /\ last.result = OrderValidation(last.input)
          /\ order.validated = last.input.validated
    /\ (last.op = "validate" /\ ~last.result.ok) =>
          order.validated = last.input.validated

\* an instance validated with quantity MaxNum, whose quantity was then set to
\* 1, has been placed with quantity 1.0
C22_Witness ==
    /\ last.op = "execute"
    /\ last.input.validated # NoneV
    /\ last.input.validated.quantity = FinV(MaxNum)
    /\ last.input.quantity = FinV(1)
    /\ last.sent # <<>>
    /\ DictGet(last.sent[1].params, "quantity") = StrV(<<"1", ".", "0">>)
    /\ order.validated.quantity = FinV(1)

\* C21: in a run of trade, in either mode, execute (and with it
\* place_order) comes right after a successful summary that followed a
\* successful validate, and only once the operator, asked after the summary,
\* answered yes; while the answer is not yes, and while the order holds no
\* validation, no order has been placed and no order request sent.  In a run
\* of cancel-all the DELETE is sent only once the operator answered yes.
C21_ConfirmBeforeOrder ==
    /\ [](cli # NoneV =>
            /\ (cli.cmd \in TradeCommands /\ last.op = "execute") =>
                  /\ cli.confirmed = "yes"
                  /\ last.input.validated # NoneV
                  /\ OrderValidation(last.input).ok
            /\ (cli.cmd \in TradeCommands /\ cli.confirmed # "yes") =>
                  /\ placeCalls = 0
                  /\ \A i \in DOMAIN last.sent : last.sent[i].method # "POST"
            /\ (/\ cli.cmd \in TradeCommands
                /\ order # NoneV
                /\ order.validated = NoneV) =>
                  /\ placeCalls = 0
                  /\ \A i \in DOMAIN last.sent : last.sent[i].method # "POST"
            /\ (cli.cmd = "cancel-all" /\ cli.confirmed # "yes") =>
                  /\ last.op # "orders.cancel_all_orders"
                  /\ \A i \in DOMAIN last.sent : last.sent[i].method # "DELETE")
    /\ [][cli # NoneV =>
            /\ (last'.op = "execute" /\ last.op # "execute") =>
                  /\ last.op = "summary"
                  /\ last.result.ok
                  /\ cli.confirmed = "yes"
            /\ (last'.op = "summary" /\ last.op # "summary") =>
                  /\ last.op = "validate"
                  /\ last.result.ok
            /\ (cli.cmd \in TradeCommands /\ cli'.confirmed # cli.confirmed) =>
                  last.op = "summary"]_vars

\* a run of trade in its direct mode whose operator answered yes has placed
\* its order
C21_Witness ==
    /\ cli # NoneV
    /\ cli.cmd = "trade"
    /\ cli.confirmed = "yes"
    /\ last.op = "execute"
    /\ last.sent # <<>>
    /\ last.sent[1].method = "POST"
    /\ last.done
    /\ last.result.ok
    /\ placeCalls = 1

=============================================================================
